---------------------------- MODULE Spec2Model ----------------------------
(***************************************************************************)
(* A model of scripts/ask_question.py (ask_youmind and its helpers) and of *)
(* the parts of scripts/browser_utils.py it drives.  One call of           *)
(* ask_youmind is one behaviour: the control position pc walks through the *)
(* function, the page is the environment (its snapshots, its indicator     *)
(* readings, the time a poll takes and the faults the browser raises are   *)
(* drawn nondeterministically), and the poll loop is one action per        *)
(* iteration.  Time is counted in tenths of a second.                      *)
(***************************************************************************)
EXTENDS Integers, Sequences, FiniteSets, TLC

(***************************************************************************)
(* Bounds of the model.                                                    *)
(***************************************************************************)
\* longest snapshot the page renders during polling
MaxSnapshotLen == 3
\* longest snapshot the page holds before submission
MaxBaselineLen == 2
\* tenths of a second one poll spends reading the page (a slow page, so that
\* the 120 s deadline is reached after a handful of polls)
ReadTenths == 232
\* polls one call may take; the deadline stops the loop before this many
MaxPolls == 6

(***************************************************************************)
(* Program constants.                                                      *)
(***************************************************************************)
\* deadline = time.time() + 120
QUERY_DEADLINE_TENTHS == 1200
\* time.sleep(0.8)
POLL_SLEEP_TENTHS == 8
\* if stable_count >= 3
STABLE_THRESHOLD == 3

FOLLOW_UP_REMINDER ==
    "\n\nEXTREMELY IMPORTANT: Is that ALL you need to know? Before replying to the user, compare this answer with the original request. If details are missing, ask another comprehensive follow-up question and include full context."

\* Python's None; no response text equals it
None == "None"

\* the stripped, non-empty texts a response block can hold
Texts == {"A", "B"}

VARIABLES
    pc,                     \* control position inside ask_youmind
    outcome,                \* which exit path the call took
    result,                 \* the value ask_youmind returns (None or text)
    raised,                 \* an exception left ask_youmind
    playwright,             \* local `playwright` is not None
    context,                \* local `context` is not None
    closeAttempted,         \* context.close() was called
    closeFailed,            \* context.close() raised
    stopAttempted,          \* playwright.stop() was called
    previous_responses,     \* baseline snapshot, ordered
    previous_last_response, \* last text of the baseline, or None
    previous_counts,        \* Counter(previous_responses)
    clock,                  \* time.time(), relative to the call's start
    deadline,
    stable_count,
    last_text,
    responses,              \* snapshot read by the latest poll
    candidate,              \* candidate of the latest poll, or None
    rule,                   \* rule that produced it: "none", "primary", "fallback"
    thinking,               \* indicator reading of the latest poll
    polls,                  \* number of polls taken
    pollStart,              \* clock value the latest poll's loop test read
    recent,                 \* candidates of the latest three polls, newest last
    allEqualBaseline,       \* every poll so far read the baseline snapshot
    observed,               \* per text, the number of polls whose candidate it was
    navigations,            \* number of page.goto calls
    landedUrl,              \* {page.url} once the navigation has returned
    baselineCaptures,       \* number of baseline snapshots taken
    typed,                  \* human_type was called with the question
    enterPressed,           \* page.keyboard.press("Enter") was called
    input_selector,         \* None, or the catalog position of the pattern found
    inputTried,             \* catalog positions _find_input_selector looked up
    clickCalls,             \* browser calls the latest realistic_click made
    clickResult,            \* how it ended: "True", "False", "raise" ("none" before)
    keyPress,               \* how the Enter press ended ("none" before)
    sendLog,                \* result of each send-button click, in order tried
    runs,                   \* two detectors fed the same snapshots (PairSpec)
    pairBaseline,           \* their common baseline
    readingsDiffered        \* their indicator readings differed at some poll

detectorVars == <<clock, deadline, stable_count, last_text, responses, candidate,
                  rule, thinking, polls, pollStart, recent, allEqualBaseline,
                  observed>>
baselineVars == <<previous_responses, previous_last_response, previous_counts>>
resourceVars == <<playwright, context, closeAttempted, closeFailed, stopAttempted>>
exitVars     == <<outcome, result, raised>>
pairVars     == <<runs, pairBaseline, readingsDiffered>>
flowVars     == <<navigations, landedUrl, baselineCaptures, typed, enterPressed>>
submitVars   == <<input_selector, inputTried, clickCalls, clickResult, keyPress,
                  sendLog>>
vars == <<pc, exitVars, resourceVars, baselineVars, detectorVars, pairVars,
          flowVars, submitVars>>

(***************************************************************************)
(* Snapshots and counts.                                                   *)
(***************************************************************************)
SeqsUpTo(n) == UNION {[1..k -> Texts] : k \in 0..n}

\* what _collect_responses can return: the non-empty stripped texts of the
\* first selector that has any, in DOM order, or [] when none has
PollSnapshots == SeqsUpTo(MaxSnapshotLen)
BaselineSnapshots == SeqsUpTo(MaxBaselineLen)

Range(s) == {s[i] : i \in DOMAIN s}

\* collections.Counter(list): occurrence count per distinct text
Counter(s) == [t \in Range(s) |-> Cardinality({i \in DOMAIN s : s[i] = t})]

\* Counter.get(text, 0)
CounterGet(c, t) == IF t \in DOMAIN c THEN c[t] ELSE 0

\* previous_responses[-1] if previous_responses else None
LastOrNone(s) == IF Len(s) > 0 THEN s[Len(s)] ELSE None


(***************************************************************************)
(* The candidate rules of one poll (ask_question.py 141-157).              *)
(***************************************************************************)
\* the comparison with >= in place of >
CountNotDecreased(cur, prevC, t) == cur[t] >= CounterGet(prevC, t)

\* current_counts[text] > previous_counts.get(text, 0)
CountIncreased(cur, prevC, t) == cur[t] > CounterGet(prevC, t)

\* for text in reversed(responses): first text whose count increased
RECURSIVE ScanReversed(_, _, _, _)
ScanReversed(resp, cur, prevC, i) ==
    IF i = 0 THEN None
    ELSE IF CountIncreased(cur, prevC, resp[i]) THEN resp[i]
    ELSE ScanReversed(resp, cur, prevC, i - 1)

\* the scan in rendering order instead of reversed
PrimaryCandidateOldestFirst(resp, prevC) ==
    LET cur  == Counter(resp)
        rose == {i \in DOMAIN resp : CountIncreased(cur, prevC, resp[i])}
    IN  IF rose = {} THEN None
        ELSE resp[CHOOSE i \in rose : \A j \in rose : i <= j]

PrimaryCandidate(resp, prevC) == ScanReversed(resp, Counter(resp), prevC, Len(resp))

\* the fallback condition without its two guards, `candidate is None` and
\* `previous_last_response`
FallbackFiresUnguarded(cand, resp, prev, prevLast) ==
    /\ resp[Len(resp)] # prevLast
    /\ resp # prev

\* the fallback condition without `candidate is None`
FallbackFiresAfterPrimary(cand, resp, prev, prevLast) ==
    /\ prevLast # None
    /\ resp[Len(resp)] # prevLast
    /\ resp # prev

\* the condition of the in-place-update fallback; `previous_last_response`
\* is tested for truth, and a text is never empty
FallbackFires(cand, resp, prev, prevLast) ==
    /\ cand = None
    /\ prevLast # None
    /\ resp[Len(resp)] # prevLast
    /\ resp # prev

\* the fallback taking responses[0]
FallbackCandidateFirst(resp) == resp[1]

\* candidate = responses[-1]
FallbackCandidate(resp) == resp[Len(resp)]

\* the body of `if responses:` together with `candidate = None` before it
SelectCandidate(resp, prev, prevLast, prevC) ==
    IF Len(resp) = 0 THEN [candidate |-> None, rule |-> "none"]
    ELSE LET p == PrimaryCandidate(resp, prevC)
         IN  IF FallbackFires(p, resp, prev, prevLast)
             THEN [candidate |-> FallbackCandidate(resp), rule |-> "fallback"]
             ELSE [candidate |-> p, rule |-> IF p = None THEN "none" ELSE "primary"]

(***************************************************************************)
(* Stability tracking (ask_question.py 159-167).                           *)
(***************************************************************************)
\* the threshold test one short
StableReachedEarly(n) == n >= STABLE_THRESHOLD - 1

\* the threshold test with > in place of >=
StableReachedLate(n) == n > STABLE_THRESHOLD

\* if stable_count >= 3
StableReached(n) == n >= STABLE_THRESHOLD

\* the else branch counting on instead of starting over
OnNewCandidateCarryOver(cand, sc) ==
    [last_text |-> cand, stable_count |-> sc + 1, done |-> FALSE]

\* else: last_text = candidate; stable_count = 1
OnNewCandidate(cand, sc) == [last_text |-> cand, stable_count |-> 1, done |-> FALSE]

\* if candidate == last_text: stable_count += 1; if stable_count >= 3: return
OnRepeat(lt, sc) ==
    [last_text |-> lt, stable_count |-> sc + 1, done |-> StableReached(sc + 1)]

\* a poll without a candidate starting the count over
TrackResetOnMiss(cand, lt, sc) ==
    IF cand = None THEN [last_text |-> None, stable_count |-> 0, done |-> FALSE]
    ELSE IF cand = lt THEN OnRepeat(lt, sc)
    ELSE OnNewCandidate(cand, sc)

\* `if candidate:`; a poll without a candidate touches neither variable
Track(cand, lt, sc) ==
    IF cand = None THEN [last_text |-> lt, stable_count |-> sc, done |-> FALSE]
    ELSE IF cand = lt THEN OnRepeat(lt, sc)
    ELSE OnNewCandidate(cand, sc)

\* return candidate + FOLLOW_UP_REMINDER
ReturnValue(cand) == cand \o FOLLOW_UP_REMINDER

\* a loop without the deadline test
LoopGuardForever(now, dl) == TRUE

\* while time.time() < deadline
LoopGuard(now, dl) == now < dl

\* a longer sleep in the thinking branch
SleepLongerWhileThinking(th) ==
    IF th THEN 10 * POLL_SLEEP_TENTHS ELSE POLL_SLEEP_TENTHS

\* if _is_thinking(page): time.sleep(0.8); continue  /  time.sleep(0.8)
SleepAfterPoll(th) == IF th THEN POLL_SLEEP_TENTHS ELSE POLL_SLEEP_TENTHS

\* time one iteration that does not return takes: reading the page, then
\* the sleep
PollElapsed(th) == ReadTenths + SleepAfterPoll(th)

\* the latest three candidates, newest last
Shift(rec, c) == IF Len(rec) < 3 THEN Append(rec, c) ELSE Append(Tail(rec), c)

(***************************************************************************)
(* ask_youmind, one action per step.                                       *)
(***************************************************************************)
\* the state of one detector at the entry of the poll loop (133-135)
LoopEntry(now) ==
    [pc |-> "polling", clock |-> now, deadline |-> now + QUERY_DEADLINE_TENTHS,
     stable_count |-> 0, last_text |-> None, polls |-> 0, result |-> None]

InitCall ==
    /\ pc = "auth"
    /\ outcome = "none"
    /\ result = None
    /\ raised = FALSE
    /\ playwright = FALSE
    /\ context = FALSE
    /\ closeAttempted = FALSE
    /\ closeFailed = FALSE
    /\ stopAttempted = FALSE
    /\ previous_responses = <<>>
    /\ previous_last_response = None
    /\ previous_counts = Counter(<<>>)
    /\ clock = 0
    /\ deadline = 0
    /\ stable_count = 0
    /\ last_text = None
    /\ responses = <<>>
    /\ candidate = None
    /\ rule = "none"
    /\ thinking = FALSE
    /\ polls = 0
    /\ pollStart = 0
    /\ recent = <<>>
    /\ allEqualBaseline = TRUE
    /\ observed = [t \in Texts |-> 0]
    /\ navigations = 0
    /\ landedUrl = {}
    /\ baselineCaptures = 0
    /\ typed = FALSE
    /\ enterPressed = FALSE
    /\ input_selector = None
    /\ inputTried = <<>>
    /\ clickCalls = <<>>
    /\ clickResult = "none"
    /\ keyPress = "none"
    /\ sendLog = <<>>

Init ==
    /\ InitCall
    /\ runs = [i \in 1..2 |-> LoopEntry(0)]
    /\ pairBaseline = <<>>
    /\ readingsDiffered = FALSE

\* leave the try block with `return None` on a detected failure
Fail(kind) ==
    /\ outcome' = kind
    /\ result' = None
    /\ raised' = FALSE
    /\ pc' = "finally_close"

\* auth = AuthManager(); if not auth.is_authenticated(): return None
AuthCheck ==
    /\ pc = "auth"
    /\ \E authenticated \in BOOLEAN :
         IF authenticated
         THEN pc' = "start_driver" /\ UNCHANGED exitVars
         ELSE /\ pc' = "done"
              /\ outcome' = "NotAuthenticated"
              /\ result' = None
              /\ raised' = FALSE
    /\ UNCHANGED <<resourceVars, baselineVars, detectorVars, pairVars, flowVars, submitVars>>

\* playwright = sync_playwright().start()
StartDriver ==
    /\ pc = "start_driver"
    /\ \E ok \in BOOLEAN :
         /\ playwright' = ok
         /\ pc' = IF ok THEN "launch_context" ELSE "except"
    /\ UNCHANGED <<exitVars, context, closeAttempted, closeFailed, stopAttempted,
                   baselineVars, detectorVars, pairVars, flowVars, submitVars>>

\* context = BrowserFactory.launch_persistent_context(...): the launch, or
\* the cookie injection after it, may raise, and then `context` stays None
LaunchContext ==
    /\ pc = "launch_context"
    /\ \E ok \in BOOLEAN :
         /\ context' = ok
         /\ pc' = IF ok THEN "open_page" ELSE "except"
    /\ UNCHANGED <<exitVars, playwright, closeAttempted, closeFailed, stopAttempted,
                   baselineVars, detectorVars, pairVars, flowVars, submitVars>>

\* page.url as the redirect test reads it: whether it contains
\* "youmind.com", and whether it contains "sign-in"
PageUrls == [youmind : BOOLEAN, signIn : BOOLEAN]

\* the test without its domain half
SignInRedirectPathOnly(url) == url.signIn

\* if "youmind.com" not in page.url or "sign-in" in page.url
SignInRedirect(url) == ~url.youmind \/ url.signIn

\* the baseline taken after the submission instead of before the input lookup
StageAfterLateBaseline(stage) ==
    CASE stage = "open_page"  -> "find_input"
      [] stage = "find_input" -> "type"
      [] stage = "type"       -> "submit"
      [] stage = "submit"     -> "baseline"
      [] stage = "baseline"   -> "polling"

\* the straight-line order of the steps between navigation and the poll
\* loop (95-137)
StageAfter(stage) ==
    CASE stage = "open_page"  -> "baseline"
      [] stage = "baseline"   -> "find_input"
      [] stage = "find_input" -> "type"
      [] stage = "type"       -> "submit"
      [] stage = "submit"     -> "polling"

\* page = context.new_page(); page.goto(...); the sign-in redirect test
OpenPage ==
    /\ pc = "open_page"
    /\ navigations' = navigations + 1
    /\ \/ /\ pc' = "except"
          /\ UNCHANGED <<exitVars, landedUrl>>
       \/ \E url \in PageUrls :
            /\ landedUrl' = {url}
            /\ IF SignInRedirect(url)
               THEN Fail("SignInRedirect")
               ELSE pc' = StageAfter("open_page") /\ UNCHANGED exitVars
    /\ UNCHANGED <<resourceVars, baselineVars, detectorVars, pairVars,
                   baselineCaptures, typed, enterPressed, submitVars>>

\* previous_responses, previous_last_response, previous_counts (105-107)
CaptureBaseline ==
    /\ pc = "baseline"
    /\ \E snap \in BaselineSnapshots :
         /\ previous_responses' = snap
         /\ previous_last_response' = LastOrNone(snap)
         /\ previous_counts' = Counter(snap)
    /\ baselineCaptures' = baselineCaptures + 1
    /\ pc' = StageAfter("baseline")
    /\ UNCHANGED <<exitVars, resourceVars, detectorVars, pairVars, navigations,
                   landedUrl, typed, enterPressed, submitVars>>

\* input_selector = _find_input_selector(page); if not input_selector: return None
FindInput ==
    /\ pc = "find_input"
    /\ \E found \in BOOLEAN :
         IF found THEN pc' = StageAfter("find_input") /\ UNCHANGED exitVars
         ELSE Fail("InputNotFound")
    /\ UNCHANGED <<resourceVars, baselineVars, detectorVars, pairVars, flowVars, submitVars>>

\* realistic_click, then human_type; either may raise (lines 115-116 as
\* one step; DriverSpec takes them apart)
TypeQuestion ==
    /\ pc = "type"
    /\ \E clicked \in BOOLEAN :
         IF clicked
         THEN /\ typed' = TRUE
              /\ \E ok \in BOOLEAN :
                   pc' = IF ok THEN StageAfter("type") ELSE "except"
         ELSE pc' = "except" /\ typed' = typed
    /\ UNCHANGED <<exitVars, resourceVars, baselineVars, detectorVars, pairVars,
                   navigations, landedUrl, baselineCaptures, enterPressed,
                   submitVars>>

\* page.keyboard.press("Enter"), the send-button loop, then lines 133-135
Submit ==
    /\ pc = "submit"
    /\ \E ok \in BOOLEAN :
         IF ok
         THEN /\ pc' = StageAfter("submit")
              /\ deadline' = LoopEntry(clock).deadline
              /\ stable_count' = LoopEntry(clock).stable_count
              /\ last_text' = LoopEntry(clock).last_text
         ELSE /\ pc' = "except"
              /\ UNCHANGED <<deadline, stable_count, last_text>>
    /\ enterPressed' = TRUE
    /\ UNCHANGED <<exitVars, resourceVars, baselineVars, pairVars, clock, responses,
                   candidate, rule, thinking, polls, pollStart, recent,
                   allEqualBaseline, observed, navigations, landedUrl,
                   baselineCaptures, typed, submitVars>>

\* one iteration of the while loop (137-174)
Poll ==
    /\ pc = "polling"
    /\ LoopGuard(clock, deadline)
    /\ polls < MaxPolls
    /\ \E resp \in PollSnapshots, th \in BOOLEAN :
         LET sel == SelectCandidate(resp, previous_responses,
                                    previous_last_response, previous_counts)
             tr  == Track(sel.candidate, last_text, stable_count)
         IN  /\ responses' = resp
             /\ candidate' = sel.candidate
             /\ rule' = sel.rule
             /\ last_text' = tr.last_text
             /\ stable_count' = tr.stable_count
             /\ polls' = polls + 1
             /\ pollStart' = clock
             /\ recent' = Shift(recent, sel.candidate)
             /\ allEqualBaseline' = (allEqualBaseline /\ resp = previous_responses)
             /\ observed' = IF sel.candidate = None THEN observed
                            ELSE [observed EXCEPT ![sel.candidate] = @ + 1]
             /\ IF tr.done
                THEN /\ pc' = "finally_close"
                     /\ outcome' = "Completed"
                     /\ result' = ReturnValue(sel.candidate)
                     /\ raised' = FALSE
                     /\ clock' = clock + ReadTenths
                     /\ thinking' = thinking
                ELSE /\ thinking' = th
                     /\ clock' = clock + PollElapsed(th)
                     /\ UNCHANGED <<pc, exitVars>>
    /\ UNCHANGED <<resourceVars, baselineVars, deadline, pairVars, flowVars, submitVars>>

\* the loop test fails: print the timeout, return None (176-177)
LoopExit ==
    /\ pc = "polling"
    /\ ~LoopGuard(clock, deadline)
    /\ Fail("TimedOut")
    /\ UNCHANGED <<resourceVars, baselineVars, detectorVars, pairVars, flowVars, submitVars>>

\* except Exception as e: print; return None (179-181)
ExceptHandler ==
    /\ pc = "except"
    /\ Fail("UnexpectedFault")
    /\ UNCHANGED <<resourceVars, baselineVars, detectorVars, pairVars, flowVars, submitVars>>

\* context.close() outside any try
AfterCloseUnguarded(failed) == IF failed THEN "raise" ELSE "finally_stop"

\* where control goes after context.close(): its exception is swallowed
AfterClose(failed) == "finally_stop"

\* where control goes after playwright.stop(): its exception is swallowed
AfterStop(failed) == "done"

\* finally: if context: try: context.close() except Exception: pass
FinallyClose ==
    /\ pc = "finally_close"
    /\ \E failed \in BOOLEAN :
         IF context
         THEN /\ closeAttempted' = TRUE
              /\ closeFailed' = failed
              /\ pc' = IF AfterClose(failed) = "raise" THEN "done" ELSE AfterClose(failed)
              /\ raised' = (AfterClose(failed) = "raise")
         ELSE /\ pc' = "finally_stop"
              /\ UNCHANGED <<closeAttempted, closeFailed, raised>>
    /\ UNCHANGED <<outcome, result, playwright, context, stopAttempted, baselineVars,
                   detectorVars, pairVars, flowVars, submitVars>>

\* finally: if playwright: try: playwright.stop() except Exception: pass
FinallyStop ==
    /\ pc = "finally_stop"
    /\ \E failed \in BOOLEAN :
         IF playwright
         THEN /\ stopAttempted' = TRUE
              /\ pc' = IF AfterStop(failed) = "raise" THEN "done" ELSE AfterStop(failed)
              /\ raised' = (AfterStop(failed) = "raise")
         ELSE /\ pc' = "done"
              /\ UNCHANGED <<stopAttempted, raised>>
    /\ UNCHANGED <<outcome, result, playwright, context, closeAttempted, closeFailed,
                   baselineVars, detectorVars, pairVars, flowVars, submitVars>>

Next ==
    \/ AuthCheck
    \/ StartDriver
    \/ LaunchContext
    \/ OpenPage
    \/ CaptureBaseline
    \/ FindInput
    \/ TypeQuestion
    \/ Submit
    \/ Poll
    \/ LoopExit
    \/ ExceptHandler
    \/ FinallyClose
    \/ FinallyStop

Spec == Init /\ [][Next]_vars

\* the interpreter always takes the next step of the single thread
FairSpec == Spec /\ WF_vars(Next)

(***************************************************************************)
(* Two detectors side by side: the same baseline, the same snapshot at     *)
(* each poll, the same page-reading time, and indicator readings chosen    *)
(* independently for each.                                                 *)
(***************************************************************************)
\* one pass through `while time.time() < deadline` for the detector st
RunStep(st, base, resp, th) ==
    IF st.pc # "polling" THEN st
    ELSE IF ~LoopGuard(st.clock, st.deadline)
    THEN [st EXCEPT !.pc = "TimedOut", !.result = None]
    ELSE LET sel == SelectCandidate(resp, base, LastOrNone(base), Counter(base))
             tr  == Track(sel.candidate, st.last_text, st.stable_count)
         IN  IF tr.done
             THEN [st EXCEPT !.pc = "Completed",
                             !.result = ReturnValue(sel.candidate),
                             !.last_text = tr.last_text,
                             !.stable_count = tr.stable_count,
                             !.polls = @ + 1,
                             !.clock = @ + ReadTenths]
             ELSE [st EXCEPT !.last_text = tr.last_text,
                             !.stable_count = tr.stable_count,
                             !.polls = @ + 1,
                             !.clock = @ + PollElapsed(th)]

PairInit ==
    /\ InitCall
    /\ runs = [i \in 1..2 |-> LoopEntry(0)]
    /\ pairBaseline \in BaselineSnapshots
    /\ readingsDiffered = FALSE

PairStep ==
    /\ \E i \in 1..2 : runs[i].pc = "polling"
    /\ \A i \in 1..2 : runs[i].polls < MaxPolls
    /\ \E resp \in PollSnapshots, th1 \in BOOLEAN, th2 \in BOOLEAN :
         /\ runs' = [i \in 1..2 |->
                       RunStep(runs[i], pairBaseline, resp, IF i = 1 THEN th1 ELSE th2)]
         /\ readingsDiffered' = (readingsDiffered \/ th1 # th2)
    /\ UNCHANGED <<pc, exitVars, resourceVars, baselineVars, detectorVars,
                   pairBaseline, flowVars, submitVars>>

PairNext == PairStep

PairSpec == PairInit /\ [][PairNext]_vars

(***************************************************************************)
(* The submission phase step by step (ask_question.py 109-135 with         *)
(* _find_input_selector, and browser_utils.py 83-143).  DriverSpec runs    *)
(* the call up to the entry of the poll loop with these steps in place of  *)
(* FindInput, TypeQuestion and Submit.                                     *)
(***************************************************************************)
\* config.py 24-31
QUERY_INPUT_SELECTORS ==
    <<"textarea[placeholder*='Ask']",
      "textarea[placeholder*='question']",
      "textarea[aria-label*='Ask']",
      "textarea[aria-label*='question']",
      "div[contenteditable='true'][role='textbox']",
      "div[contenteditable='true']">>

\* config.py 33-37
SEND_BUTTON_SELECTORS ==
    <<"button[aria-label*='Send']",
      "button[data-testid*='send']",
      "button[class*='send']">>

\* page.wait_for_selector(selector, timeout=5000, state="visible") returns,
\* or raises (no visible match in time, a malformed pattern, a DOM fault)
LookupOutcomes == {"visible", "raises"}

\* the lookup outside any try
AfterLookupUncaught(lookup) == IF lookup = "visible" THEN "return" ELSE "raise"

\* try: wait_for_selector; return selector / except Exception: continue
AfterLookup(lookup) == IF lookup = "visible" THEN "return" ELSE "continue"

\* one iteration of `for selector in QUERY_INPUT_SELECTORS`
TryInputSelector ==
    /\ pc = "find_input"
    /\ Len(inputTried) < Len(QUERY_INPUT_SELECTORS)
    /\ \E lookup \in LookupOutcomes :
         LET selector == QUERY_INPUT_SELECTORS[Len(inputTried) + 1]
             after    == AfterLookup(lookup)
         IN  /\ inputTried' = Append(inputTried,
                                     [selector |-> selector, outcome |-> lookup])
             /\ input_selector' = IF after = "return" THEN selector ELSE input_selector
             /\ pc' = CASE after = "return"   -> "check_input"
                        [] after = "continue" -> "find_input"
                        [] after = "raise"    -> "except"
    /\ UNCHANGED <<exitVars, resourceVars, baselineVars, detectorVars, pairVars,
                   flowVars, clickCalls, clickResult, keyPress, sendLog>>

\* the for loop ran out of patterns: return None
InputLoopExhausted ==
    /\ pc = "find_input"
    /\ Len(inputTried) = Len(QUERY_INPUT_SELECTORS)
    /\ pc' = "check_input"
    /\ UNCHANGED <<exitVars, resourceVars, baselineVars, detectorVars, pairVars,
                   flowVars, submitVars>>

\* the check left out
InputMissingIgnored(sel) == FALSE

\* if not input_selector
InputMissing(sel) == sel = None

\* if not input_selector: print; return None
CheckInput ==
    /\ pc = "check_input"
    /\ IF InputMissing(input_selector)
       THEN Fail("InputNotFound")
       ELSE pc' = "click_input" /\ UNCHANGED exitVars
    /\ UNCHANGED <<resourceVars, baselineVars, detectorVars, pairVars, flowVars,
                   submitVars>>

\* what the browser does during one _resolve_visible_element call
ResolveEnvs ==
    [query   : {"element", "none", "raises"},
     visible : {"yes", "no", "raises"},
     wait    : {"element", "raises"}]

\* what the browser does during one realistic_click call
ClickEnvs ==
    [query   : {"element", "none", "raises"},
     visible : {"yes", "no", "raises"},
     wait    : {"element", "raises"},
     box     : {"box", "none", "raises"},
     move    : {"ok", "raises"},
     click   : {"ok", "raises"}]

\* StealthUtils._resolve_visible_element: "element", None, or "raise" when
\* page.query_selector, which no try encloses, raises
ResolveVisibleElement(env) ==
    IF env.query = "raises" THEN "raise"
    ELSE IF env.query = "element" /\ env.visible \in {"yes", "raises"} THEN "element"
    ELSE IF env.wait = "element" THEN "element"
    ELSE None

\* the browser calls _resolve_visible_element makes
ResolveCalls(env) ==
    <<"query_selector">>
    \o (IF env.query = "element" THEN <<"is_visible">> ELSE <<>>)
    \o (IF \/ env.query = "none"
           \/ env.query = "element" /\ env.visible = "no"
        THEN <<"wait_for_selector">> ELSE <<>>)

\* StealthUtils.realistic_click: "True", "False", or "raise"
RealisticClick(env) ==
    LET element == ResolveVisibleElement(env)
    IN  IF element = "raise" THEN "raise"
        ELSE IF element = None THEN "False"
        ELSE IF env.click = "ok" THEN "True"
        ELSE "False"

\* the browser calls realistic_click makes
ClickCalls(env) ==
    ResolveCalls(env)
    \o (IF ResolveVisibleElement(env) = "element"
        THEN <<"bounding_box">>
             \o (IF env.box = "box" THEN <<"mouse.move">> ELSE <<>>)
             \o <<"click">>
        ELSE <<>>)

\* StealthUtils.human_type: "typed", "skipped" when no element is found,
\* "raise" when the lookup or element.type raises
HumanTypeResult(env, typing) ==
    LET element == ResolveVisibleElement(env)
    IN  IF element = "raise" THEN "raise"
        ELSE IF element = None THEN "skipped"
        ELSE IF typing = "ok" THEN "typed"
        ELSE "raise"

\* StealthUtils.realistic_click(page, input_selector), line 115
ClickInput ==
    /\ pc = "click_input"
    /\ \E env \in ClickEnvs :
         /\ clickCalls' = ClickCalls(env)
         /\ clickResult' = RealisticClick(env)
         /\ pc' = IF RealisticClick(env) = "raise" THEN "except" ELSE "human_type"
    /\ UNCHANGED <<exitVars, resourceVars, baselineVars, detectorVars, pairVars,
                   flowVars, input_selector, inputTried, keyPress, sendLog>>

\* StealthUtils.human_type(page, input_selector, question), line 116
HumanType ==
    /\ pc = "human_type"
    /\ typed' = TRUE
    /\ \E env \in ResolveEnvs, typing \in {"ok", "raises"} :
         pc' = IF HumanTypeResult(env, typing) = "raise" THEN "except"
               ELSE "press_enter"
    /\ UNCHANGED <<exitVars, resourceVars, baselineVars, detectorVars, pairVars,
                   navigations, landedUrl, baselineCaptures, enterPressed,
                   submitVars>>

\* page.keyboard.press("Enter"): it submits, or only inserts a newline, or
\* raises; then time.sleep(0.6)
PressEnter ==
    /\ pc = "press_enter"
    /\ enterPressed' = TRUE
    /\ \E pressed \in {"submits", "no_effect", "raises"} :
         /\ keyPress' = pressed
         /\ pc' = IF pressed = "raises" THEN "except" ELSE "send_loop"
    /\ UNCHANGED <<exitVars, resourceVars, baselineVars, detectorVars, pairVars,
                   navigations, landedUrl, baselineCaptures, typed,
                   input_selector, inputTried, clickCalls, clickResult, sendLog>>

\* the loop going on after a click that succeeded
AfterSendClickNoBreak(clicked) == "continue"

\* if realistic_click(...): break / except Exception: continue
AfterSendClick(clicked) == IF clicked = "True" THEN "break" ELSE "continue"

\* one iteration of `for send_selector in SEND_BUTTON_SELECTORS`
TrySendButton ==
    /\ pc = "send_loop"
    /\ Len(sendLog) < Len(SEND_BUTTON_SELECTORS)
    /\ \E env \in ClickEnvs :
         LET selector == SEND_BUTTON_SELECTORS[Len(sendLog) + 1]
             clicked  == RealisticClick(env)
         IN  /\ clickCalls' = ClickCalls(env)
             /\ clickResult' = clicked
             /\ sendLog' = Append(sendLog, [selector |-> selector, result |-> clicked])
             /\ pc' = IF \/ AfterSendClick(clicked) = "break"
                         \/ Len(sendLog) + 1 = Len(SEND_BUTTON_SELECTORS)
                      THEN "loop_entry"
                      ELSE "send_loop"
    /\ UNCHANGED <<exitVars, resourceVars, baselineVars, detectorVars, pairVars,
                   flowVars, input_selector, inputTried, keyPress>>

\* deadline = time.time() + 120; stable_count = 0; last_text = None
EnterPollLoop ==
    /\ pc = "loop_entry"
    /\ pc' = "polling"
    /\ deadline' = LoopEntry(clock).deadline
    /\ stable_count' = LoopEntry(clock).stable_count
    /\ last_text' = LoopEntry(clock).last_text
    /\ UNCHANGED <<exitVars, resourceVars, baselineVars, pairVars, clock, responses,
                   candidate, rule, thinking, polls, pollStart, recent,
                   allEqualBaseline, observed, flowVars, submitVars>>

DriverNext ==
    \/ AuthCheck
    \/ StartDriver
    \/ LaunchContext
    \/ OpenPage
    \/ CaptureBaseline
    \/ TryInputSelector
    \/ InputLoopExhausted
    \/ CheckInput
    \/ ClickInput
    \/ HumanType
    \/ PressEnter
    \/ TrySendButton
    \/ EnterPollLoop
    \/ ExceptHandler
    \/ FinallyClose
    \/ FinallyStop

DriverSpec == Init /\ [][DriverNext]_vars

(***************************************************************************)
(* Properties.                                                             *)
(***************************************************************************)
\* how often text t occurs in snapshot s
Occurrences(s, t) == Cardinality({i \in DOMAIN s : s[i] = t})

\* the positions of snapshot s whose text occurs more often in s than in b
RisenAt(s, b) == {i \in DOMAIN s : Occurrences(s, s[i]) > Occurrences(b, s[i])}

\* the in-place-update case of snapshot s against baseline b
InPlaceUpdate(s, b) ==
    /\ RisenAt(s, b) = {}
    /\ Len(s) > 0
    /\ Len(b) > 0
    /\ s[Len(s)] # b[Len(b)]
    /\ s # b

Max(S) == CHOOSE m \in S : \A n \in S : n <= m

Exited == outcome \in {"Completed", "TimedOut"}

\* C1: a Completed answer is some text t followed by the reminder, where t
\* either occurs more often in the declaring poll's snapshot than in the
\* baseline, or is the last text of that snapshot chosen by the in-place
\* update fallback.
C1_ReportedTextIsNew ==
    outcome = "Completed" =>
        \E t \in Texts :
            /\ result = t \o FOLLOW_UP_REMINDER
            /\ \/ Occurrences(responses, t) > Occurrences(previous_responses, t)
               \/ /\ InPlaceUpdate(responses, previous_responses)
                  /\ t = responses[Len(responses)]

C1_Witness ==
    /\ outcome = "Completed"
    /\ rule = "primary"
    /\ Len(previous_responses) > 0
    /\ result = candidate \o FOLLOW_UP_REMINDER

\* C2: when some text occurs more often in the poll's snapshot than in the
\* baseline, the poll's candidate is the text at the highest such position.
C2_PrimaryPicksMostRecent ==
    (polls > 0 /\ RisenAt(responses, previous_responses) # {}) =>
        /\ candidate = responses[Max(RisenAt(responses, previous_responses))]
        /\ rule = "primary"

C2_Witness ==
    /\ polls > 0
    /\ previous_responses = <<"A", "A">>
    /\ responses = <<"A", "A", "A">>
    /\ candidate = "A"

\* C3: completion is declared only when the declaring poll and the two polls
\* immediately before it all yielded the returned candidate.
C3_ThreeConsecutivePolls ==
    outcome = "Completed" =>
        /\ Len(recent) = 3
        /\ \A i \in 1..3 : recent[i] = candidate

\* C4: a poll whose snapshot equals the baseline yields no candidate, and an
\* exchange all of whose polls read the baseline ends TimedOut, not Completed.
C4_StalledPageNeverCompletes ==
    /\ (polls > 0 /\ responses = previous_responses) =>
           (candidate = None /\ rule = "none")
    /\ (Exited /\ allEqualBaseline) => outcome = "TimedOut"

C4_Witness ==
    /\ outcome = "TimedOut"
    /\ allEqualBaseline
    /\ polls > 2
    /\ Len(previous_responses) > 0

\* C5: a poll whose candidate differs from the recorded one sets the counter
\* to 1 and records the new candidate.
C5_NewCandidateResetsCounter ==
    [][(pc = "polling" /\ polls' = polls + 1
          /\ candidate' # None /\ candidate' # last_text)
       => (stable_count' = 1 /\ last_text' = candidate')]_vars

C5_Witness ==
    /\ Len(recent) = 3
    /\ recent[1] # None
    /\ recent[2] = recent[1]
    /\ recent[3] \notin {None, recent[1]}
    /\ last_text = recent[3]
    /\ stable_count = 1

\* C6: with an empty baseline no poll's candidate comes from the fallback
\* rule, and every candidate is a text whose count rose.
C6_EmptyBaselineNoFallback ==
    (polls > 0 /\ previous_responses = <<>>) =>
        /\ rule # "fallback"
        /\ candidate # None =>
               /\ rule = "primary"
               /\ Occurrences(responses, candidate) > 0

C6_Witness ==
    /\ polls > 0
    /\ previous_responses = <<>>
    /\ previous_last_response = None
    /\ Len(responses) > 0
    /\ rule = "primary"

\* C7: a timed-out call returns None after the deadline; only a Completed
\* call returns text, its candidate was the candidate of at least three
\* polls, and its declaring poll started before the deadline.
C7_TimeoutReturnsNoPartial ==
    /\ outcome = "TimedOut" => (result = None /\ clock >= deadline)
    /\ result # None => outcome = "Completed"
    /\ outcome = "Completed" =>
           /\ observed[candidate] >= 3
           /\ pollStart < deadline

C7_Witness ==
    /\ outcome = "TimedOut"
    /\ result = None
    /\ stable_count = 2
    /\ last_text # None

\* C8: a call that acquired both the context and the driver has, when it is
\* over, attempted context.close() and playwright.stop(), a failed close
\* included, and let no exception out.
C8_CleanupOnEveryExit ==
    (pc = "done" /\ context /\ playwright) =>
        /\ closeAttempted
        /\ stopAttempted
        /\ ~raised

C8_Witness ==
    /\ pc = "done"
    /\ context
    /\ playwright
    /\ closeFailed
    /\ stopAttempted
    /\ outcome = "UnexpectedFault"

PreSubmission ==
    {"auth", "start_driver", "launch_context", "open_page", "baseline",
     "find_input", "type", "submit"}

\* C9: an exchange in the poll loop eventually ends Completed or TimedOut;
\* the loop is left only with one of the two; afterwards no poll is taken,
\* the outcome stays, and control never is in the loop or before it again;
\* and TimedOut is reported only once the clock has reached the deadline.
C9_PollLoopTerminates ==
    /\ (pc = "polling") ~> Exited
    /\ [][(pc = "polling" /\ pc' # "polling") => Exited']_vars
    /\ [][Exited => (/\ outcome' = outcome
                     /\ polls' = polls
                     /\ pc' \notin PreSubmission \cup {"polling"})]_vars
    /\ [](outcome = "TimedOut" => clock >= deadline)

C9_Witness ==
    /\ pc = "done"
    /\ outcome = "TimedOut"
    /\ polls > 2

\* C10: two detectors given the same baseline and the same snapshots, with
\* indicator readings of their own, have taken the same number of polls and
\* hold the same result at every step.
C10_IndicatorAdvisory ==
    /\ runs[1].polls = runs[2].polls
    /\ runs[1].pc = runs[2].pc
    /\ runs[1].result = runs[2].result

C10_Witness ==
    /\ readingsDiffered
    /\ runs[1].pc = "Completed"
    /\ runs[2].pc = "Completed"
    /\ runs[1].result # None

Leaving == {"finally_close", "finally_stop", "done"}

\* C13: a call that finds no authentication ends at once with None and
\* without a driver, a context or a navigation; a call whose page lands
\* outside the domain or on a sign-in URL ends with None without a baseline,
\* typing, the Enter press or a poll; no navigation is repeated and neither
\* outcome is left again.
C13_AuthFailuresTerminal ==
    /\ [](outcome = "NotAuthenticated" =>
            /\ pc = "done" /\ result = None
            /\ ~playwright /\ ~context /\ navigations = 0
            /\ baselineCaptures = 0 /\ ~typed /\ ~enterPressed /\ polls = 0)
    /\ [](\A url \in landedUrl :
            (~url.youmind \/ url.signIn) =>
                /\ outcome = "SignInRedirect" /\ result = None
                /\ pc \in Leaving
                /\ baselineCaptures = 0 /\ ~typed /\ ~enterPressed /\ polls = 0)
    /\ [](navigations <= 1)
    /\ [][(outcome \in {"NotAuthenticated", "SignInRedirect"}) =>
            (outcome' = outcome /\ pc' \in Leaving)]_vars

C13_Witness ==
    /\ pc = "done"
    /\ outcome = "SignInRedirect"
    /\ landedUrl = {[youmind |-> FALSE, signIn |-> FALSE]}
    /\ stopAttempted

\* C17: the baseline is captured at most once, before the question is typed
\* and before Enter is pressed; a poll is taken only after the Enter press;
\* and apart from the capture nothing assigns the baseline list, its last
\* text or its counts.
C17_BaselineOnceBeforeSubmit ==
    /\ [](baselineCaptures <= 1)
    /\ []((typed \/ enterPressed \/ polls > 0) => baselineCaptures = 1)
    /\ [](polls > 0 => enterPressed)
    /\ [][baselineCaptures' # baselineCaptures => (~typed /\ ~enterPressed)]_vars
    /\ [][baselineCaptures' = baselineCaptures => UNCHANGED baselineVars]_vars

C17_Witness ==
    /\ polls > 1
    /\ baselineCaptures = 1
    /\ typed
    /\ enterPressed
    /\ Len(previous_responses) > 0
    /\ responses # previous_responses

\* C18: a candidate supplied by the fallback rule is the snapshot's last
\* text, and that text occurs in the baseline at least once and at least as
\* often as in the snapshot.
C18_FallbackTextIsOld ==
    rule = "fallback" =>
        /\ candidate = responses[Len(responses)]
        /\ Occurrences(previous_responses, candidate) >= 1
        /\ Occurrences(previous_responses, candidate)
               >= Occurrences(responses, candidate)

C18_Witness ==
    /\ rule = "fallback"
    /\ polls > 0
    /\ candidate = responses[Len(responses)]

\* C19: a poll that yields no candidate leaves last_text and stable_count
\* as they were.
C19_MissKeepsTracking ==
    [][(polls' = polls + 1 /\ candidate' = None)
       => UNCHANGED <<last_text, stable_count>>]_vars

C19_Witness ==
    /\ outcome = "Completed"
    /\ Len(recent) = 3
    /\ recent[2] = None
    /\ recent[3] = last_text
    /\ stable_count = 3

\* C20: stable_count stays within 0..3, is 0 exactly while no candidate is
\* recorded, moves by +1 or to 1 or not at all, and is below 3 whenever the
\* loop may start another poll.
C20_CounterRange ==
    /\ [](stable_count \in 0..STABLE_THRESHOLD)
    /\ [](stable_count = 0 <=> last_text = None)
    /\ [](pc = "polling" => stable_count < STABLE_THRESHOLD)
    /\ [][(stable_count' \in {stable_count, stable_count + 1, 1})]_vars

C20_Witness ==
    /\ stable_count = STABLE_THRESHOLD
    /\ outcome = "Completed"
    /\ last_text = candidate

\* C11: the input patterns are looked up in catalog order; the selector
\* returned is the pattern of the latest lookup, which succeeded after all
\* earlier ones failed; None is returned only after every pattern failed; and
\* a failing lookup never takes control out of the resolver.
C11_InputResolution ==
    /\ [](\A k \in DOMAIN inputTried :
            inputTried[k].selector = QUERY_INPUT_SELECTORS[k])
    /\ [](input_selector # None =>
            /\ Len(inputTried) > 0
            /\ inputTried[Len(inputTried)] =
                   [selector |-> input_selector, outcome |-> "visible"]
            /\ \A j \in 1..(Len(inputTried) - 1) : inputTried[j].outcome = "raises")
    /\ []((pc = "check_input" /\ input_selector = None) =>
            /\ Len(inputTried) = Len(QUERY_INPUT_SELECTORS)
            /\ \A j \in DOMAIN inputTried : inputTried[j].outcome = "raises")
    /\ [][pc = "find_input" => pc' \in {"find_input", "check_input"}]_vars

C11_Witness ==
    /\ pc = "check_input"
    /\ input_selector = QUERY_INPUT_SELECTORS[3]
    /\ Len(inputTried) = 3
    /\ inputTried[2].outcome = "raises"

\* C12: realistic_click ends with True or False, never with an exception.
C12_ClickNeverRaises == clickResult \in {"none", "True", "False"}

\* C14: when every input pattern failed, the call ends InputNotFound with
\* None, and the question is not typed, Enter is not pressed, no click is
\* made and the poll loop is not entered.
C14_InputNotFoundTerminal ==
    /\ []((input_selector = None /\ pc \notin {"find_input", "check_input"}
             /\ Len(inputTried) = Len(QUERY_INPUT_SELECTORS)) =>
            /\ outcome = "InputNotFound" /\ result = None
            /\ pc \in Leaving
            /\ ~typed /\ ~enterPressed /\ keyPress = "none"
            /\ clickResult = "none" /\ clickCalls = <<>> /\ sendLog = <<>>
            /\ deadline = 0 /\ polls = 0)
    /\ [][outcome = "InputNotFound" =>
            (outcome' = outcome /\ pc' \in Leaving)]_vars

C14_Witness ==
    /\ pc = "done"
    /\ outcome = "InputNotFound"
    /\ Len(inputTried) = Len(QUERY_INPUT_SELECTORS)
    /\ closeAttempted
    /\ stopAttempted

\* no send-button click of the exchange returned True
NoSendClicked == \A k \in DOMAIN sendLog : sendLog[k].result # "True"

\* C15: when the Enter press did not work and no send button was clicked,
\* the call is not on its way out before the poll loop.
C15_SubmissionFailureNonFatal ==
    (keyPress \in {"no_effect", "raises"} /\ NoSendClicked) =>
        pc \notin {"except"} \cup Leaving

\* C16: send buttons are clicked only after the Enter press and in catalog
\* order; a click that returned True is the last one; the loop is left only
\* after such a click or after the last candidate; and a click that fails or
\* raises keeps control in the loop.
C16_SendButtonOrder ==
    /\ [](\A k \in DOMAIN sendLog :
            /\ sendLog[k].selector = SEND_BUTTON_SELECTORS[k]
            /\ sendLog[k].result = "True" => k = Len(sendLog))
    /\ [](sendLog # <<>> => keyPress \in {"submits", "no_effect"})
    /\ [](pc \in {"loop_entry", "polling"} =>
            /\ Len(sendLog) > 0
            /\ \/ sendLog[Len(sendLog)].result = "True"
               \/ Len(sendLog) = Len(SEND_BUTTON_SELECTORS))
    /\ [][pc = "send_loop" => pc' \in {"send_loop", "loop_entry"}]_vars

C16_Witness ==
    /\ pc = "polling"
    /\ Len(sendLog) = 3
    /\ sendLog[1].result = "False"
    /\ sendLog[2].result = "raise"
    /\ sendLog[3].result = "True"

=============================================================================
